---- MODULE Spec2Model ----
(***************************************************************************)
(* A model of projectify.py: the configuration resolver (read_config,      *)
(* coerce_config), the manifest renderer (build_pyproject and its          *)
(* helpers) and the scaffold emitter (generate_from_config) acting on a    *)
(* filesystem.                                                             *)
(*                                                                         *)
(* Text is a sequence of tokens.  A token is a TLA+ string: one character  *)
(* of a configuration value, or a literal chunk of a template.  The text   *)
(* denoted by a sequence is the concatenation of its tokens.               *)
(***************************************************************************)
EXTENDS Integers, Sequences, FiniteSets, TLC

VARIABLES
    fs,            \* the filesystem: [dirs, files]
    gitignore,     \* GITIGNORE_CONTENT, read from the working directory when the module loads
    last,          \* the last call: its arguments and its outcome
    succeeded,     \* history: the <<document, destination>> pairs of the calls that returned
    interrupted,   \* history: the pairs of the calls an I/O error ended after their first step
    raw,           \* the parsed document handed to the resolver
    data,          \* <<>> or <<the outcome of read_config(raw)>>
    resolved,      \* <<>> or <<the outcome of coerce_config>>
    groups_block,  \* <<>> or <<the text format_dependency_groups returned>>
    manifest,      \* <<>> or <<the text build_pyproject returned>>
    scaffold,      \* <<>> or <<the files generate_from_config renders, in the order it writes them>>
    heap,          \* the objects in memory: heap[a] is the dict or the list at address a
    held           \* the last coerce_config call and the dependency_groups the caller holds

vars ==
    <<fs, gitignore, last, succeeded, interrupted, raw, data, resolved, groups_block, manifest,
      scaffold, heap, held>>

emitterVars == <<fs, gitignore, last, succeeded, interrupted>>
resolverVars == <<raw, data, resolved, groups_block, manifest, scaffold>>
heapVars == <<heap, held>>

(***************************************************************************)
(* Bounds of the model.                                                    *)
(***************************************************************************)
MaxStr == 2
MaxAuthors == 2
MaxDeps == 2

(***************************************************************************)
(* Sequences.                                                              *)
(***************************************************************************)
RECURSIVE Flatten(_)
Flatten(ss) == IF ss = <<>> THEN <<>> ELSE Head(ss) \o Flatten(Tail(ss))

RECURSIVE JoinWith(_, _)
\* sep.join(ss) for a sequence ss of texts
JoinWith(sep, ss) ==
    IF ss = <<>> THEN <<>>
    ELSE IF Len(ss) = 1 THEN ss[1]
    ELSE ss[1] \o sep \o JoinWith(sep, Tail(ss))

RECURSIVE AsString(_)
\* the single string a text denotes
AsString(t) == IF t = <<>> THEN "" ELSE Head(t) \o AsString(Tail(t))

Range(s) == { s[i] : i \in 1..Len(s) }

IndexOf(s, x) == CHOOSE i \in 1..Len(s) : s[i] = x /\ \A j \in 1..(i-1) : s[j] # x

SeqsUpTo(S, n) == UNION { [1..k -> S] : k \in 0..n }

(***************************************************************************)
(* Untyped document values, as yaml.safe_load returns them: None, bool,    *)
(* int, str, list, dict.  Every value is a record of one shape; a dict     *)
(* keeps its keys in insertion order (keys[i] maps to items[i]).           *)
(***************************************************************************)
Null == [kind |-> "null", s |-> <<>>, n |-> 0, keys |-> <<>>, items |-> <<>>]
B(b) == [kind |-> "bool", s |-> <<>>, n |-> IF b THEN 1 ELSE 0, keys |-> <<>>, items |-> <<>>]
I(n) == [kind |-> "int", s |-> <<>>, n |-> n, keys |-> <<>>, items |-> <<>>]
S(t) == [kind |-> "str", s |-> t, n |-> 0, keys |-> <<>>, items |-> <<>>]
L(xs) == [kind |-> "list", s |-> <<>>, n |-> 0, keys |-> <<>>, items |-> xs]
M(ks, xs) == [kind |-> "dict", s |-> <<>>, n |-> 0, keys |-> ks, items |-> xs]

IsList(v) == v.kind = "list"
IsDict(v) == v.kind = "dict"
Has(m, k) == k \in Range(m.keys)
Get(m, k) == m.items[IndexOf(m.keys, k)]

DigitChar(d) == <<"0", "1", "2", "3", "4", "5", "6", "7", "8", "9">>[d + 1]

RECURSIVE Digits(_)
Digits(n) == IF n < 10 THEN <<DigitChar(n)>> ELSE Digits(n \div 10) \o <<DigitChar(n % 10)>>

\* str(v) for the scalar values of a document
Str(v) ==
    CASE v.kind = "str" -> v.s
      [] v.kind = "null" -> <<"N", "o", "n", "e">>
      [] v.kind = "bool" -> IF v.n = 1 THEN <<"T", "r", "u", "e">> ELSE <<"F", "a", "l", "s", "e">>
      [] v.kind = "int" -> IF v.n < 0 THEN <<"-">> \o Digits(-v.n) ELSE Digits(v.n)

StrAll(xs) == [i \in 1..Len(xs) |-> Str(xs[i])]

(***************************************************************************)
(* read_config: the root of the parsed document must be a mapping.  The    *)
(* parse itself (yaml.safe_load) is external: a document is the value it   *)
(* returns.                                                                *)
(***************************************************************************)
Err(msg) == [error |-> msg, value |-> <<>>]
Ok(v) == [error |-> "", value |-> <<v>>]

Falsy(doc) ==
    \/ doc.kind = "null"
    \/ doc.kind \in {"bool", "int"} /\ doc.n = 0
    \/ doc.kind = "str" /\ doc.s = <<>>
    \/ doc.kind = "list" /\ doc.items = <<>>
    \/ doc.kind = "dict" /\ doc.keys = <<>>

read_config_falsy_is_empty(doc) ==
    IF Falsy(doc) THEN Err("Configuration file is empty.")
    ELSE IF ~IsDict(doc) THEN Err("Configuration must define a mapping at the top level.")
    ELSE Ok(doc)

read_config(doc) ==
    IF doc.kind = "null" THEN Err("Configuration file is empty.")
    ELSE IF ~IsDict(doc) THEN Err("Configuration must define a mapping at the top level.")
    ELSE Ok(doc)

(***************************************************************************)
(* Built-in defaults.  An entry of a dependency list is one literal token. *)
(* A groups mapping keeps insertion order: keys[i] maps to vals[i].        *)
(***************************************************************************)
DEFAULT_DEPENDENCY_GROUPS ==
    [keys |-> <<"test", "docs", "examples">>,
     vals |-> << << <<"pytest >=7">>, <<"pytest-cov >=3">>, <<"coverage[toml]">> >>,
                 << <<"sphinx>=7">>, <<"furo">>, <<"myst-parser<5">>, <<"sphinx-design">>,
                    <<"sphinx-togglebutton">>, <<"sphinx-copybutton">>,
                    <<"sphinx-autodoc-typehints">>, <<"myst-nb">>, <<"sphinxcontrib-mermaid">> >>,
                 << <<"rich">>, <<"matplotlib>=3.10.7">> >> >>]

DEV_BASELINE == << <<"ipython">>, <<"ruff">>, <<"pre_commit">>, <<"mypy">> >>

\* groups[name] = deps on an insertion-ordered mapping
PutGroupMerging(groups, name, deps) ==
    IF name \in Range(groups.keys)
    THEN [groups EXCEPT !.vals[IndexOf(groups.keys, name)] = @ \o deps]
    ELSE [keys |-> Append(groups.keys, name), vals |-> Append(groups.vals, deps)]

PutGroup(groups, name, deps) ==
    IF name \in Range(groups.keys)
    THEN [groups EXCEPT !.vals[IndexOf(groups.keys, name)] = deps]
    ELSE [keys |-> Append(groups.keys, name), vals |-> Append(groups.vals, deps)]

GroupOf(groups, name) == groups.vals[IndexOf(groups.keys, name)]

(***************************************************************************)
(* coerce_config, field by field in the order of the code.                 *)
(***************************************************************************)
RECURSIVE AuthorsLoopError(_)
\* the error of the first author entry the loop rejects, "" when it accepts all
AuthorsLoopError(entries) ==
    IF entries = <<>> THEN ""
    ELSE IF ~IsDict(Head(entries)) THEN "Each author entry must be a mapping with name/email"
    ELSE IF ~Has(Head(entries), "name") \/ ~Has(Head(entries), "email")
         THEN "Author entries require 'name' and 'email'"
    ELSE AuthorsLoopError(Tail(entries))

AuthorsErrorAllowsEmpty(r) ==
    IF ~Has(r, "authors") THEN "Missing 'authors' in configuration"
    ELSE IF ~IsList(Get(r, "authors")) THEN "'authors' must be a list"
    ELSE AuthorsLoopError(Get(r, "authors").items)

\* the checks of the authors field, "" when it passes them
AuthorsError(r) ==
    IF ~Has(r, "authors") THEN "Missing 'authors' in configuration"
    ELSE IF ~IsList(Get(r, "authors")) THEN "'authors' must be a list"
    ELSE IF Get(r, "authors").items = <<>> THEN "'authors' must contain at least one entry"
    ELSE AuthorsLoopError(Get(r, "authors").items)

CoerceAuthors(entries) ==
    [i \in 1..Len(entries) |->
        [name |-> Str(Get(entries[i], "name")), email |-> Str(Get(entries[i], "email"))]]

RECURSIVE GroupsLoopError(_, _)
\* the error of the first caller group whose value is not a list
GroupsLoopError(ks, xs) ==
    IF ks = <<>> THEN ""
    ELSE IF ~IsList(Head(xs)) THEN "Dependency group '" \o Head(ks) \o "' must be a list"
    ELSE GroupsLoopError(Tail(ks), Tail(xs))

RECURSIVE GroupsLoop(_, _, _)
\* the loop over groups_raw.items(), every value being a list
GroupsLoop(groups, ks, xs) ==
    IF ks = <<>> THEN groups
    ELSE GroupsLoop(PutGroup(groups, Head(ks), StrAll(Head(xs).items)), Tail(ks), Tail(xs))

RStripSlashOnce(t) == IF t # <<>> /\ t[Len(t)] = "/" THEN SubSeq(t, 1, Len(t) - 1) ELSE t

\* project_url.rstrip("/")
RStripSlash(t) ==
    LET keep == { i \in 1..Len(t) : t[i] # "/" }
        n == IF keep = {} THEN 0 ELSE CHOOSE i \in keep : \A j \in keep : j <= i
    IN SubSeq(t, 1, n)

ProjectConfig(r) ==
    [project_name |-> Str(Get(r, "project_name")),
     description |-> Str(Get(r, "description")),
     project_url |-> RStripSlash(Str(Get(r, "project_url"))),
     authors |-> CoerceAuthors(Get(r, "authors").items),
     dependencies |-> StrAll(Get(r, "dependencies").items),
     dependency_groups |->
         GroupsLoop(DEFAULT_DEPENDENCY_GROUPS,
                    Get(r, "dependency_groups").keys, Get(r, "dependency_groups").items),
     dev_extras |-> StrAll(Get(r, "dev_extras").items)]

coerce_config_dependencies_first(r) ==
    IF ~Has(r, "project_name") THEN Err("Missing 'project_name' in configuration")
    ELSE IF ~Has(r, "description") THEN Err("Missing 'description' in configuration")
    ELSE IF ~Has(r, "project_url") THEN Err("Missing 'project_url' in configuration")
    ELSE IF ~Has(r, "dependencies") THEN Err("Missing 'dependencies' in configuration")
    ELSE IF ~IsList(Get(r, "dependencies")) THEN Err("'dependencies' must be a list")
    ELSE IF AuthorsError(r) # "" THEN Err(AuthorsError(r))
    ELSE IF ~Has(r, "dependency_groups") THEN Err("Missing 'dependency_groups' in configuration")
    ELSE IF ~IsDict(Get(r, "dependency_groups")) THEN Err("'dependency_groups' must be a mapping")
    ELSE IF GroupsLoopError(Get(r, "dependency_groups").keys, Get(r, "dependency_groups").items) # ""
         THEN Err(GroupsLoopError(Get(r, "dependency_groups").keys, Get(r, "dependency_groups").items))
    ELSE IF ~Has(r, "dev_extras") THEN Err("Missing 'dev_extras' in configuration")
    ELSE IF ~IsList(Get(r, "dev_extras")) THEN Err("'dev_extras' must be a list")
    ELSE Ok(ProjectConfig(r))

coerce_config(r) ==
    IF ~Has(r, "project_name") THEN Err("Missing 'project_name' in configuration")
    ELSE IF ~Has(r, "description") THEN Err("Missing 'description' in configuration")
    ELSE IF ~Has(r, "project_url") THEN Err("Missing 'project_url' in configuration")
    ELSE IF AuthorsError(r) # "" THEN Err(AuthorsError(r))
    ELSE IF ~Has(r, "dependencies") THEN Err("Missing 'dependencies' in configuration")
    ELSE IF ~IsList(Get(r, "dependencies")) THEN Err("'dependencies' must be a list")
    ELSE IF ~Has(r, "dependency_groups") THEN Err("Missing 'dependency_groups' in configuration")
    ELSE IF ~IsDict(Get(r, "dependency_groups")) THEN Err("'dependency_groups' must be a mapping")
    ELSE IF GroupsLoopError(Get(r, "dependency_groups").keys, Get(r, "dependency_groups").items) # ""
         THEN Err(GroupsLoopError(Get(r, "dependency_groups").keys, Get(r, "dependency_groups").items))
    ELSE IF ~Has(r, "dev_extras") THEN Err("Missing 'dev_extras' in configuration")
    ELSE IF ~IsList(Get(r, "dev_extras")) THEN Err("'dev_extras' must be a list")
    ELSE Ok(ProjectConfig(r))

(***************************************************************************)
(* Rendering helpers.  In a rendered text the characters newline, double   *)
(* quote and backslash are always tokens of their own, and indentation is  *)
(* a run of four-space tokens.                                             *)
(***************************************************************************)
NL == "\n"
QUOTE == "\""
BACKSLASH == "\\"
INDENT == "    "

RECURSIVE ReplaceChar(_, _, _)
\* str.replace(old, new) for a one-character old and a text new
ReplaceChar(t, old, new) ==
    IF t = <<>> THEN <<>>
    ELSE (IF Head(t) = old THEN new ELSE <<Head(t)>>) \o ReplaceChar(Tail(t), old, new)

normalize_package_name_hyphens_only(project_name) == ReplaceChar(project_name, "-", <<"_">>)

normalize_package_name(project_name) ==
    ReplaceChar(ReplaceChar(project_name, "-", <<"_">>), " ", <<"_">>)

format_authors(authors) ==
    IF authors = <<>>
    THEN <<INDENT, "{ name = ", QUOTE, "Mo", QUOTE, ", email = ", QUOTE, "todo@example.com", QUOTE, " },">>
    ELSE JoinWith(<<NL>>,
            [i \in 1..Len(authors) |->
                <<INDENT, "{ name = ", QUOTE>> \o authors[i].name
                    \o <<QUOTE, ", email = ", QUOTE>> \o authors[i].email \o <<QUOTE, " },">>])

\* format_string_array with its default indent of 4
format_string_array(values) ==
    IF values = <<>> THEN <<INDENT, "# Add entries here">>
    ELSE JoinWith(<<NL>>,
            [i \in 1..Len(values) |-> <<INDENT, QUOTE>> \o values[i] \o <<QUOTE, ",">>])

RECURSIVE GroupBlocks(_, _)
\* the output_lines of the loop over groups.items()
GroupBlocks(ks, vs) ==
    IF ks = <<>> THEN <<>>
    ELSE (IF Head(ks) = "dev" THEN <<>>
          ELSE << <<Head(ks), " = [">>, format_string_array(Head(vs)), <<"]", NL>> >>)
         \o GroupBlocks(Tail(ks), Tail(vs))

IncludeGroupsWithDev(ks) == ks

\* include_groups: the names of the groups other than dev, in encounter order
IncludeGroups(ks) == SelectSeq(ks, LAMBDA name : name # "dev")

DevEntriesExtrasFirst(extra_dev) == extra_dev \o DEV_BASELINE

\* DEV_BASELINE + extra_dev
DevEntries(extra_dev) == DEV_BASELINE \o extra_dev

format_dependency_groups(groups, extra_dev) ==
    LET include_groups == IncludeGroups(groups.keys)
        deps == DevEntries(extra_dev)
        output_lines ==
            GroupBlocks(groups.keys, groups.vals)
            \o << <<"dev = [">> >>
            \o [i \in 1..Len(include_groups) |->
                   <<INDENT, "{ include-group = ", QUOTE, include_groups[i], QUOTE, " },">>]
            \o [i \in 1..Len(deps) |-> <<INDENT, QUOTE>> \o deps[i] \o <<QUOTE, ",">>]
            \o << <<"]">> >>
    IN JoinWith(<<NL>>, output_lines)

escape_toml_string(value) ==
    ReplaceChar(ReplaceChar(value, BACKSLASH, <<BACKSLASH, BACKSLASH>>), QUOTE, <<BACKSLASH, QUOTE>>)

build_author_label_first_only(authors, project_name) ==
    IF authors = <<>> THEN project_name \o <<" developers">> ELSE authors[1].name

build_author_label(authors, project_name) ==
    IF authors = <<>> THEN project_name \o <<" developers">>
    ELSE JoinWith(<<", ">>, [i \in 1..Len(authors) |-> authors[i].name])

(***************************************************************************)
(* Lines of a text, and textwrap.dedent.                                   *)
(***************************************************************************)
RECURSIVE SplitOn(_, _)
\* the pieces of t between the tokens equal to sep
SplitOn(t, sep) ==
    IF \A i \in 1..Len(t) : t[i] # sep THEN <<t>>
    ELSE LET k == IndexOf(t, sep)
         IN <<SubSeq(t, 1, k - 1)>> \o SplitOn(SubSeq(t, k + 1, Len(t)), sep)

Lines(t) == SplitOn(t, NL)

IsWhitespace(tok) == tok \in {" ", NL, "\t", INDENT}

IsBlank(line) == \A i \in 1..Len(line) : IsWhitespace(line[i])

\* the number of leading indentation tokens of a line
Indentation(line) ==
    LET other == { i \in 1..Len(line) : line[i] # INDENT }
    IN IF other = {} THEN Len(line) ELSE (CHOOSE i \in other : \A j \in other : i <= j) - 1

dedent(t) ==
    LET ls == Lines(t)
        full == { i \in 1..Len(ls) : ~IsBlank(ls[i]) }
        margin == IF full = {} THEN 0
                  ELSE CHOOSE m \in { Indentation(ls[i]) : i \in full } :
                          \A i \in full : m <= Indentation(ls[i])
    IN JoinWith(<<NL>>,
           [i \in 1..Len(ls) |->
               IF IsBlank(ls[i]) THEN <<>> ELSE SubSeq(ls[i], margin + 1, Len(ls[i]))])

(***************************************************************************)
(* build_pyproject.  A static stretch of the template is one line holding  *)
(* one literal token that names it; every template line carries the eight  *)
(* spaces it has in the source, and the text is dedented after             *)
(* interpolation, as in the code.                                          *)
(***************************************************************************)
TLine(rest) == <<INDENT, INDENT>> \o rest

NameLine(config) == TLine(<<"name = ", QUOTE>> \o config.project_name \o <<QUOTE>>)

DescriptionLine(config) ==
    TLine(<<"description = ", QUOTE>> \o escape_toml_string(config.description) \o <<QUOTE>>)

HomepageLine(config) ==
    TLine(<<"Homepage = ", QUOTE>> \o escape_toml_string(config.project_url) \o <<QUOTE>>)

BugTrackerLine(config) ==
    TLine(<<QUOTE, "Bug Tracker", QUOTE, " = ", QUOTE>>
          \o escape_toml_string(config.project_url \o <<"/issues">>) \o <<QUOTE>>)

DiscussionsLine(config) ==
    TLine(<<"Discussions = ", QUOTE>>
          \o escape_toml_string(config.project_url \o <<"/discussions">>) \o <<QUOTE>>)

ChangelogLine(config) ==
    TLine(<<"Changelog = ", QUOTE>>
          \o escape_toml_string(config.project_url \o <<"/releases">>) \o <<QUOTE>>)

build_pyproject(config) ==
    LET package_name == normalize_package_name(config.project_name)
    IN dedent(JoinWith(<<NL>>, <<
        TLine(<<"[build-system] requires, build-backend">>),
        <<>>,
        <<>>,
        TLine(<<"[project]">>),
        NameLine(config),
        DescriptionLine(config),
        TLine(<<"license, license-files, readme, requires-python, classifiers, dynamic">>),
        TLine(<<"authors = [">>),
        TLine(format_authors(config.authors)),
        TLine(<<"]">>),
        TLine(<<"dependencies = [">>),
        TLine(format_string_array(config.dependencies)),
        TLine(<<"]">>),
        <<>>,
        <<>>,
        TLine(<<"[dependency-groups]">>),
        TLine(format_dependency_groups(config.dependency_groups, config.dev_extras)),
        <<>>,
        <<>>,
        TLine(<<"[project.urls]">>),
        HomepageLine(config),
        BugTrackerLine(config),
        DiscussionsLine(config),
        ChangelogLine(config),
        <<>>,
        <<>>,
        TLine(<<"[tool.hatch]">>),
        TLine(<<"version.path = ", QUOTE, "src/">> \o package_name \o <<"/__init__.py", QUOTE>>),
        <<>>,
        <<>>,
        TLine(<<"[tool.pytest.ini_options] ...">>),
        <<>>,
        <<>>,
        TLine(<<"[tool.coverage]">>),
        TLine(<<"run.source = [", QUOTE>> \o package_name \o <<QUOTE, "]">>),
        TLine(<<"port.exclude_lines, [tool.mypy] ..., [tool.ruff.lint] ...">>),
        <<INDENT, INDENT>> >>))

(***************************************************************************)
(* The templates of the scaffold.  A literal token names a static stretch  *)
(* of a template; the whitespace that ends a template is kept as tokens.   *)
(***************************************************************************)
PRE_COMMIT_CONFIG == <<"repos: ...", NL>>
READTHEDOCS_CONFIG == <<"version: 2 ...", NL>>
CI_WORKFLOW == <<"name: CI ...", NL>>
DOC_API_INDEX == <<"# API Reference ...", NL>>
DOCS_CUSTOM_CSS == <<"/* custom.css */ ...", NL>>
DOCS_MAKEFILE == <<"# Makefile for Sphinx documentation ...", NL>>
DOC_STUB == <<"This is a STUB.", NL>>
GITIGNORE_DEFAULT == <<"__pycache__/", NL, "*.pyc", NL>>

LICENSE_TEXT(copyright_holder) ==
    <<"MIT License", NL, NL, "Copyright (c) 2024 ">> \o copyright_holder
        \o <<NL, NL, "Permission is hereby granted ... SOFTWARE.", NL>>

README_STUB(project_name) == <<"# ">> \o project_name \o <<NL, NL, "This is a STUB.", NL>>

DOC_INDEX_TEMPLATE(project_name) ==
    <<"# ">> \o project_name \o <<" documentation", NL, NL, "This is a STUB.", NL, NL,
                                  "{toctree} blocks ...", NL>>

\* DOC_CONF_TEMPLATE is not dedented: its lines keep four spaces, the last one is only spaces
DOC_CONF_TEMPLATE(project_name, author_label, repository_url) ==
    <<INDENT, QUOTE, QUOTE, QUOTE, "Sphinx configuration for the ">> \o project_name
        \o <<" documentation.", QUOTE, QUOTE, QUOTE, NL, INDENT, "project = ", QUOTE>> \o project_name
        \o <<QUOTE, NL, INDENT, "author = ", QUOTE>> \o author_label
        \o <<QUOTE, NL, INDENT, "copyright = f", QUOTE, "{{_dt.datetime.now().year}}, ">> \o author_label
        \o <<QUOTE, NL, INDENT, "url: ", QUOTE>> \o repository_url
        \o <<QUOTE, NL, INDENT, "source_repository: ", QUOTE>> \o repository_url
        \o <<QUOTE, NL, INDENT, "html_baseurl = ", QUOTE, "https://">> \o project_name
        \o <<".readthedocs.io/", QUOTE, NL, INDENT>>

INIT_TEMPLATE(project_name, description, package_name, author_label) ==
    <<QUOTE, QUOTE, QUOTE, NL>> \o project_name \o <<": ">> \o description
        \o <<NL, QUOTE, QUOTE, QUOTE, NL, NL, "from __future__ import annotations ...", NL,
             "__name__ = ", QUOTE>> \o package_name
        \o <<QUOTE, NL, "__author__ = ", QUOTE>> \o author_label
        \o <<QUOTE, NL, "__copyright__ = f", QUOTE, "Copyright {datetime.datetime.now().year}, ">>
        \o author_label
        \o <<QUOTE, NL, "__version__ = ", QUOTE, "0.0.1", QUOTE, NL, NL, "__all__ = [...]", NL>>

placeholder_test == <<"from __future__ import annotations ... def test_placeholder ...", NL>>

(***************************************************************************)
(* The filesystem: the set of directories and the content of each file.    *)
(* A path is the sequence of its components; <<>> is the root directory.   *)
(***************************************************************************)
Exists(f, path) == path \in f.dirs \/ path \in DOMAIN f.files

Prefixes(path) == { SubSeq(path, 1, k) : k \in 0..Len(path) }

\* the path join of pathlib for a one-component name: joining the empty name gives the path itself
PathJoin(path, name) == IF name = <<>> THEN path ELSE Append(path, AsString(name))

FsOk(f) == [fs |-> f, error |-> ""]
FsErr(f, type) == [fs |-> f, error |-> type]

\* Path.mkdir(parents=True, exist_ok=True)
ensure_directory(f, path) ==
    IF path \in DOMAIN f.files THEN FsErr(f, "FileExistsError")
    ELSE IF Prefixes(path) \cap DOMAIN f.files # {} THEN FsErr(f, "NotADirectoryError")
    ELSE FsOk([f EXCEPT !.dirs = @ \cup Prefixes(path)])

RStrip(t) ==
    LET keep == { i \in 1..Len(t) : ~IsWhitespace(t[i]) }
        n == IF keep = {} THEN 0 ELSE CHOOSE i \in keep : \A j \in keep : j <= i
    IN SubSeq(t, 1, n)

NormalizeContentAppendsOnly(content) == content \o <<NL>>

\* content.rstrip() + "\n"
NormalizeContent(content) == RStrip(content) \o <<NL>>

\* Path.write_text of the normalized content
write_file(f, path, content) ==
    IF path \in f.dirs THEN FsErr(f, "IsADirectoryError")
    ELSE IF SubSeq(path, 1, Len(path) - 1) \notin f.dirs THEN FsErr(f, "FileNotFoundError")
    ELSE FsOk([f EXCEPT !.files = (path :> NormalizeContent(content)) @@ @])

(***************************************************************************)
(* generate_from_config.  The run is a fixed sequence of steps: the seven  *)
(* directories, then the twenty-five files.  budget is the number of       *)
(* steps the filesystem lets the run complete before an I/O error          *)
(* (permission denied, disk full) ends it.                                 *)
(***************************************************************************)
Directories(project_root, package_name) ==
    << project_root \o <<"src", AsString(package_name)>>,
       project_root \o <<"tests">>,
       project_root \o <<"docs", "_static">>,
       project_root \o <<"docs", "_templates">>,
       project_root \o <<"docs", "api">>,
       project_root \o <<".github", "workflows">>,
       project_root \o <<"examples">> >>

W(path, content) == [path |-> path, content |-> content]

Files(config, project_root, gitignore_content) ==
    LET package_name == normalize_package_name(config.project_name)
        author_label_value == build_author_label(config.authors, config.project_name)
    IN << W(project_root \o <<"pyproject.toml">>, build_pyproject(config)),
          W(project_root \o <<".pre-commit-config.yaml">>, PRE_COMMIT_CONFIG),
          W(project_root \o <<".readthedocs.yaml">>, READTHEDOCS_CONFIG),
          W(project_root \o <<"LICENSE">>, LICENSE_TEXT(author_label_value)),
          W(project_root \o <<"README.md">>, README_STUB(config.project_name)),
          W(project_root \o <<".gitignore">>, gitignore_content),
          W(project_root \o <<".github", "workflows", "ci.yml">>, CI_WORKFLOW),
          W(project_root \o <<"docs", "index.md">>, DOC_INDEX_TEMPLATE(config.project_name)),
          W(project_root \o <<"docs", "conf.py">>,
            DOC_CONF_TEMPLATE(config.project_name, author_label_value, config.project_url)),
          W(project_root \o <<"docs", "introduction.md">>, <<"# Introduction", NL, NL>> \o DOC_STUB),
          W(project_root \o <<"docs", "quickstart.md">>, <<"# Quickstart", NL, NL>> \o DOC_STUB),
          W(project_root \o <<"docs", "concepts.md">>, <<"# Core Concepts", NL, NL>> \o DOC_STUB),
          W(project_root \o <<"docs", "tutorials.md">>, <<"# Tutorials", NL, NL>> \o DOC_STUB),
          W(project_root \o <<"docs", "architecture.md">>, <<"# Architecture", NL, NL>> \o DOC_STUB),
          W(project_root \o <<"docs", "contributing.md">>, <<"# Contributing Guide", NL, NL>> \o DOC_STUB),
          W(project_root \o <<"docs", "api", "index.md">>, DOC_API_INDEX),
          W(project_root \o <<"docs", "api", "inference.md">>, <<"# Inference API", NL, NL>> \o DOC_STUB),
          W(project_root \o <<"docs", "api", "parameters.md">>, <<"# Parameters API", NL, NL>> \o DOC_STUB),
          W(project_root \o <<"docs", "api", "statelib.md">>, <<"# Statelib API", NL, NL>> \o DOC_STUB),
          W(project_root \o <<"docs", "_static", "custom.css">>, DOCS_CUSTOM_CSS),
          W(project_root \o <<"docs", "_templates", ".gitkeep">>, <<>>),
          W(project_root \o <<"docs", "Makefile">>, DOCS_MAKEFILE),
          W(project_root \o <<"src", AsString(package_name), "__init__.py">>,
            INIT_TEMPLATE(config.project_name, config.description, package_name, author_label_value)),
          W(project_root \o <<"tests", "test_placeholder.py">>, placeholder_test),
          W(project_root \o <<"examples", ".gitkeep">>, <<>>) >>

\* the value of body(x) for x = v, with v evaluated once
Let(v, body(_)) == CHOOSE y \in { body(x) : x \in {v} } : TRUE

RECURSIVE MakeDirectories(_, _, _)
\* for directory in directories: ensure_directory(directory)
MakeDirectories(f, directories, budget) ==
    IF directories = <<>> THEN FsOk(f)
    ELSE IF budget = 0 THEN FsErr(f, "OSError")
    ELSE Let(ensure_directory(f, Head(directories)),
             LAMBDA r : IF r.error # "" THEN r
                        ELSE MakeDirectories(r.fs, Tail(directories), budget - 1))

RECURSIVE WriteFiles(_, _, _)
\* the write_file calls, in order
WriteFiles(f, files, budget) ==
    IF files = <<>> THEN FsOk(f)
    ELSE IF budget = 0 THEN FsErr(f, "OSError")
    ELSE Let(write_file(f, Head(files).path, Head(files).content),
             LAMBDA r : IF r.error # "" THEN r
                        ELSE WriteFiles(r.fs, Tail(files), budget - 1))

RECURSIVE PathStr(_)
PathStr(path) == IF path = <<>> THEN "" ELSE "/" \o Head(path) \o PathStr(Tail(path))

Raised(f, type, msg) == [fs |-> f, error |-> [type |-> type, msg |-> msg], returned |-> <<>>]
Returned(f, path) == [fs |-> f, error |-> [type |-> "", msg |-> ""], returned |-> <<path>>]

EmitRollsBack(f, config, project_root, gitignore_content, budget) ==
    LET package_name == normalize_package_name(config.project_name)
        dirs == Directories(project_root, package_name)
    IN Let(MakeDirectories(f, dirs, budget),
           LAMBDA made :
               IF made.error # "" THEN Raised(f, made.error, "")
               ELSE Let(WriteFiles(made.fs, Files(config, project_root, gitignore_content),
                                   budget - Len(dirs)),
                        LAMBDA written :
                            IF written.error # "" THEN Raised(f, written.error, "")
                            ELSE Returned(written.fs, project_root)))

\* lines 811-882: the directories, the files, the returned path
Emit(f, config, project_root, gitignore_content, budget) ==
    LET package_name == normalize_package_name(config.project_name)
        dirs == Directories(project_root, package_name)
    IN Let(MakeDirectories(f, dirs, budget),
           LAMBDA made :
               IF made.error # "" THEN Raised(made.fs, made.error, "")
               ELSE Let(WriteFiles(made.fs, Files(config, project_root, gitignore_content),
                                   budget - Len(dirs)),
                        LAMBDA written :
                            IF written.error # "" THEN Raised(written.fs, written.error, "")
                            ELSE Returned(written.fs, project_root)))

generate_from_config_checks_root_late(f, doc, destination, gitignore_content, budget) ==
    LET document == read_config(doc)
        coerced == coerce_config(document.value[1])
        config == coerced.value[1]
        project_root == PathJoin(destination, config.project_name)
    IN IF document.error # "" THEN Raised(f, "ConfigError", document.error)
       ELSE IF coerced.error # "" THEN Raised(f, "ConfigError", coerced.error)
       ELSE IF ~Exists(f, destination)
            THEN Raised(f, "FileNotFoundError", "Destination " \o PathStr(destination) \o " does not exist")
       ELSE Let(MakeDirectories(f, Directories(project_root, normalize_package_name(config.project_name)),
                                budget),
                LAMBDA made :
                    IF Exists(made.fs, project_root)
                    THEN Raised(made.fs, "FileExistsError", PathStr(project_root) \o " already exists")
                    ELSE Emit(f, config, project_root, gitignore_content, budget))

generate_from_config_merges(f, doc, destination, gitignore_content, budget) ==
    LET document == read_config(doc)
        coerced == coerce_config(document.value[1])
        config == coerced.value[1]
        project_root == PathJoin(destination, config.project_name)
    IN IF document.error # "" THEN Raised(f, "ConfigError", document.error)
       ELSE IF coerced.error # "" THEN Raised(f, "ConfigError", coerced.error)
       ELSE IF ~Exists(f, destination)
            THEN Raised(f, "FileNotFoundError", "Destination " \o PathStr(destination) \o " does not exist")
       ELSE Emit(f, config, project_root, gitignore_content, budget)

generate_from_config(f, doc, destination, gitignore_content, budget) ==
    LET document == read_config(doc)
        coerced == coerce_config(document.value[1])
        config == coerced.value[1]
        project_root == PathJoin(destination, config.project_name)
    IN IF document.error # "" THEN Raised(f, "ConfigError", document.error)
       ELSE IF coerced.error # "" THEN Raised(f, "ConfigError", coerced.error)
       ELSE IF ~Exists(f, destination)
            THEN Raised(f, "FileNotFoundError", "Destination " \o PathStr(destination) \o " does not exist")
       ELSE IF Exists(f, project_root)
            THEN Raised(f, "FileExistsError", PathStr(project_root) \o " already exists")
       ELSE Emit(f, config, project_root, gitignore_content, budget)

(***************************************************************************)
(* Configuration documents.                                                *)
(***************************************************************************)
FieldOrder ==
    <<"project_name", "description", "project_url", "authors", "dependencies",
      "dependency_groups", "dev_extras">>

RECURSIVE MkDoc(_, _)
\* the mapping holding field fields[i] with value opts[i][1] when opts[i] is not empty
MkDoc(fields, opts) ==
    IF fields = <<>> THEN M(<<>>, <<>>)
    ELSE LET rest == MkDoc(Tail(fields), Tail(opts))
         IN IF Head(opts) = <<>> THEN rest
            ELSE M(<<Head(fields)>> \o rest.keys, <<Head(opts)[1]>> \o rest.items)

Author(name, email) == M(<<"name", "email">>, <<name, email>>)
AuthorMo == Author(S(<<"M", "o">>), S(<<"m", "@", "x">>))
AuthorAl == Author(S(<<"A", "l">>), I(7))
AuthorNoEmail == M(<<"name">>, <<S(<<"N">>)>>)
AuthorNotMapping == S(<<"M", "o">>)

Doc(name, description, url, authors, deps, groups, extras) ==
    MkDoc(FieldOrder, << <<name>>, <<description>>, <<url>>, <<authors>>, <<deps>>, <<groups>>, <<extras>> >>)

BaseDoc(name, description, url) ==
    Doc(name, description, url, L(<<AuthorMo>>), L(<<S(<<"n", "p">>)>>),
        M(<<"test">>, <<L(<<S(<<"p", "y">>)>>)>>), L(<<S(<<"x">>)>>))

Without(doc, key) ==
    LET keep == { i \in 1..Len(doc.keys) : doc.keys[i] # key }
        idx == SelectSeq([i \in 1..Len(doc.keys) |-> i], LAMBDA i : i \in keep)
    IN M([j \in 1..Len(idx) |-> doc.keys[idx[j]]], [j \in 1..Len(idx) |-> doc.items[idx[j]]])

Strings(alphabet) == SeqsUpTo(alphabet, MaxStr)

\* the documents the emitter is run on
SampleProject == BaseDoc(S(<<"a", "-", "b">>), S(<<"d">>), S(<<"u", "/">>))
SampleProjectRevised ==
    Doc(S(<<"a", "-", "b">>), S(<<"e", QUOTE>>), S(<<"u">>), L(<<AuthorMo, AuthorAl>>), L(<<>>),
        M(<<"lint", "dev">>, <<L(<<S(<<"r">>)>>), L(<<>>)>>), L(<<>>))
MyProject == BaseDoc(S(<<"a", " ", "b">>), S(<<"d">>), S(<<"u">>))
EmptyName == BaseDoc(S(<<>>), S(<<"d">>), S(<<"u">>))

EmitterDocs ==
    { Null, Without(SampleProject, "authors"),
      SampleProject, SampleProjectRevised, MyProject, EmptyName }

\* the documents the resolver is run on: every combination of field shapes ...
AuthorEntries == { AuthorMo, AuthorNoEmail, AuthorNotMapping }

ShapeOptions ==
    << { <<>>, <<S(<<>>)>>, <<S(<<"p">>)>>, <<Null>> },
       { <<>>, <<S(<<"d">>)>> },
       { <<>>, <<S(<<"u", "/">>)>> },
       { <<>>, <<S(<<"x">>)>> } \cup { <<L(es)>> : es \in SeqsUpTo(AuthorEntries, MaxAuthors) },
       { <<>>, <<Null>>, <<L(<<S(<<"n">>), I(305)>>)>> },
       { <<>>, <<L(<<>>)>>, <<M(<<>>, <<>>)>>,
         <<M(<<"test">>, <<L(<<S(<<"p", "y">>)>>)>>)>>,
         <<M(<<"lint", "test">>, <<L(<<S(<<"r">>)>>), S(<<"x">>)>>)>>,
         <<M(<<"dev", "lint", "docs">>, <<L(<<S(<<"v">>)>>), L(<<S(<<"r">>), B(TRUE)>>), L(<<>>)>>)>> },
       { <<>>, <<S(<<"x">>)>>, <<L(<<>>)>>, <<L(<<S(<<"x">>), I(-12)>>)>> } >>

ShapeDocs ==
    { MkDoc(FieldOrder, <<o1, o2, o3, o4, o5, o6, o7>>) :
        o1 \in ShapeOptions[1], o2 \in ShapeOptions[2], o3 \in ShapeOptions[3],
        o4 \in ShapeOptions[4], o5 \in ShapeOptions[5], o6 \in ShapeOptions[6],
        o7 \in ShapeOptions[7] }

\* ... and every short string in each scalar field
StringDocs ==
    { BaseDoc(S(n), S(<<"d">>), S(<<"u">>)) : n \in Strings({"a", "-", " ", QUOTE}) }
    \cup { BaseDoc(S(<<"p">>), S(d), S(<<"u">>)) : d \in Strings({"x", QUOTE, BACKSLASH}) }
    \cup { BaseDoc(S(<<"p">>), S(<<"d">>), S(u)) : u \in Strings({"u", "/"}) }

\* ... every short list of authors and every short list of dependencies
AuthorDocs ==
    { Doc(S(<<"p">>), S(<<"d">>), S(<<"u">>), L(as), L(<<>>), M(<<>>, <<>>), L(<<>>)) :
        as \in SeqsUpTo({AuthorMo, AuthorAl}, MaxAuthors) }

DependencyDocs ==
    { Doc(S(<<"p">>), S(<<"d">>), S(<<"u">>), L(<<AuthorMo>>), L(ds), M(<<>>, <<>>), L(<<>>)) :
        ds \in SeqsUpTo({S(<<"n">>), S(<<"s", "c">>), I(3),
                         S(<<"a", QUOTE, ",", NL, INDENT, QUOTE, "b">>)}, MaxDeps) }

ResolverDocs ==
    { Null, L(<<>>), L(<<S(<<"x">>)>>), S(<<"x">>), S(<<>>), I(0), I(3), B(FALSE), B(TRUE) }
    \cup ShapeDocs \cup StringDocs \cup AuthorDocs \cup DependencyDocs

(***************************************************************************)
(* Memory.  DEFAULT_DEPENDENCY_GROUPS is a module-level dict of lists, and *)
(* dicts and lists are objects with an identity: heap[a] is the object at  *)
(* address a, a dict holding the addresses of its lists.  An object no     *)
(* name refers to any more is freed.                                       *)
(***************************************************************************)
MaxAppends == 1

DictObj(keys, refs) == [kind |-> "dict", keys |-> keys, refs |-> refs, entries |-> <<>>]
ListObj(entries) == [kind |-> "list", keys |-> <<>>, refs |-> <<>>, entries |-> entries]

\* the address of the dict DEFAULT_DEPENDENCY_GROUPS names
DefaultsAddr == 1

InitialHeap ==
    << DictObj(DEFAULT_DEPENDENCY_GROUPS.keys,
               [i \in 1..Len(DEFAULT_DEPENDENCY_GROUPS.keys) |-> DefaultsAddr + i]) >>
    \o [i \in 1..Len(DEFAULT_DEPENDENCY_GROUPS.vals) |-> ListObj(DEFAULT_DEPENDENCY_GROUPS.vals[i])]

\* the mapping a dict object denotes
Deref(h, a) ==
    [keys |-> h[a].keys, vals |-> [i \in 1..Len(h[a].refs) |-> h[h[a].refs[i]].entries]]

\* dict(DEFAULT_DEPENDENCY_GROUPS): a new dict that shares the lists of the defaults
CopyDefaultsShallow(h) ==
    [heap |-> Append(h, DictObj(h[DefaultsAddr].keys, h[DefaultsAddr].refs)), ref |-> Len(h) + 1]

\* {key: [str(dep) for dep in value] for key, value in DEFAULT_DEPENDENCY_GROUPS.items()}:
\* a new dict holding a new list per key
CopyDefaults(h) ==
    LET d == h[DefaultsAddr]
        n == Len(d.keys)
        lists == [i \in 1..n |-> ListObj(h[d.refs[i]].entries)]
    IN [heap |-> (h \o lists) \o <<DictObj(d.keys, [i \in 1..n |-> Len(h) + i])>>,
        ref |-> Len(h) + n + 1]

\* dependency_groups[group_name] = [str(dep) for dep in deps], the dict being at address a
SetGroup(h, a, group_name, deps) ==
    LET list == Len(h) + 1
        h1 == Append(h, ListObj(deps))
    IN IF group_name \in Range(h[a].keys)
       THEN [h1 EXCEPT ![a].refs[IndexOf(h[a].keys, group_name)] = list]
       ELSE [h1 EXCEPT ![a].keys = Append(@, group_name), ![a].refs = Append(@, list)]

RECURSIVE GroupsLoopOnHeap(_, _, _, _)
\* the loop over groups_raw.items(), which raises at the first value that is not a list
GroupsLoopOnHeap(h, a, ks, xs) ==
    IF ks = <<>> THEN [heap |-> h, error |-> ""]
    ELSE IF ~IsList(Head(xs))
         THEN [heap |-> h, error |-> "Dependency group '" \o Head(ks) \o "' must be a list"]
    ELSE GroupsLoopOnHeap(SetGroup(h, a, Head(ks), StrAll(Head(xs).items)), a, Tail(ks), Tail(xs))

HeapErr(h, msg) == [heap |-> h, error |-> msg, ref |-> <<>>]

\* coerce_config acting on memory: the checks in the order of the code, the copy of the
\* defaults and the loop over the groups; ref is the dependency_groups of the returned config
coerce_config_on_heap(h, r) ==
    IF ~Has(r, "project_name") THEN HeapErr(h, "Missing 'project_name' in configuration")
    ELSE IF ~Has(r, "description") THEN HeapErr(h, "Missing 'description' in configuration")
    ELSE IF ~Has(r, "project_url") THEN HeapErr(h, "Missing 'project_url' in configuration")
    ELSE IF AuthorsError(r) # "" THEN HeapErr(h, AuthorsError(r))
    ELSE IF ~Has(r, "dependencies") THEN HeapErr(h, "Missing 'dependencies' in configuration")
    ELSE IF ~IsList(Get(r, "dependencies")) THEN HeapErr(h, "'dependencies' must be a list")
    ELSE IF ~Has(r, "dependency_groups") THEN HeapErr(h, "Missing 'dependency_groups' in configuration")
    ELSE IF ~IsDict(Get(r, "dependency_groups")) THEN HeapErr(h, "'dependency_groups' must be a mapping")
    ELSE LET copy == CopyDefaults(h)
             loop == GroupsLoopOnHeap(copy.heap, copy.ref, Get(r, "dependency_groups").keys,
                                      Get(r, "dependency_groups").items)
         IN IF loop.error # "" THEN HeapErr(loop.heap, loop.error)
            ELSE IF ~Has(r, "dev_extras") THEN HeapErr(loop.heap, "Missing 'dev_extras' in configuration")
            ELSE IF ~IsList(Get(r, "dev_extras")) THEN HeapErr(loop.heap, "'dev_extras' must be a list")
            ELSE [heap |-> loop.heap, error |-> "", ref |-> <<copy.ref>>]

\* the objects the defaults and the dicts at refs reach, moved to the lowest addresses in
\* their order; ref is where the dicts at refs are after the move
Collect(h, refs) ==
    LET roots == {DefaultsAddr} \cup Range(refs)
        live == roots \cup UNION { Range(h[a].refs) : a \in roots }
        Rank(a) == Cardinality({ b \in live : b <= a })
        At(i) == CHOOSE a \in live : Rank(a) = i
    IN [heap |-> [i \in 1..Cardinality(live) |->
                     [h[At(i)] EXCEPT !.refs = [k \in 1..Len(h[At(i)].refs) |-> Rank(h[At(i)].refs[k])]]],
        ref |-> [k \in 1..Len(refs) |-> Rank(refs[k])]]

\* the entry a caller appends to a list of a returned config
Marker == <<"extra">>

Appended(entries) == Cardinality({ i \in 1..Len(entries) : entries[i] = Marker })

NoHeld == [op |-> "", raw |-> Null, error |-> "", ref |-> <<>>]

\* the documents coerce_config is called on in memory
GroupsNotAllLists ==
    Doc(S(<<"p">>), S(<<"d">>), S(<<"u">>), L(<<AuthorMo>>), L(<<>>),
        M(<<"test", "lint">>, <<L(<<S(<<"t">>)>>), S(<<"x">>)>>), L(<<>>))

NoOverrides ==
    Doc(S(<<"p">>), S(<<"d">>), S(<<"u">>), L(<<AuthorMo>>), L(<<>>), M(<<>>, <<>>), L(<<>>))

HeapDocs ==
    { SampleProject, SampleProjectRevised, NoOverrides, GroupsNotAllLists,
      Without(SampleProject, "authors"), Without(SampleProjectRevised, "dev_extras") }

(***************************************************************************)
(* The emitter: calls of generate_from_config on a filesystem.             *)
(***************************************************************************)
InitialFs ==
    [dirs |-> { <<>>, <<"tmp">> },
     files |-> [p \in { <<"tmp", "config.yml">> } |-> <<"project_name: ...", NL>>]]

\* an existing directory, a missing one, and a path that is a file
Destinations == { <<"tmp">>, <<"out">>, <<"tmp", "config.yml">> }

GitignoreContents == { GITIGNORE_DEFAULT, <<".venv/", " ", NL, NL>> }

NumDirectories == Len(Directories(<<>>, <<>>))
NumFiles == Len(Files(coerce_config(SampleProject).value[1], <<>>, <<>>))

\* an I/O error at the first directory, at the second directory, at the second file, or none
IoBudgets == { 0, 1, NumDirectories + 1, NumDirectories + NumFiles }

NoError == [type |-> "", msg |-> ""]
NoCall == [op |-> "", config |-> Null, destination |-> <<>>, error |-> NoError, returned |-> <<>>]

Init ==
    /\ fs = InitialFs
    /\ gitignore \in GitignoreContents
    /\ last = NoCall
    /\ succeeded = {}
    /\ interrupted = {}
    /\ raw = Null
    /\ data = <<>>
    /\ resolved = <<>>
    /\ groups_block = <<>>
    /\ manifest = <<>>
    /\ scaffold = <<>>
    /\ heap = InitialHeap
    /\ held = NoHeld

GenerateFromConfig(doc, destination, budget) ==
    \E r \in { generate_from_config(fs, doc, destination, gitignore, budget) } :
       /\ fs' = r.fs
       /\ last' = [op |-> "generate_from_config", config |-> doc, destination |-> destination,
                   error |-> r.error, returned |-> r.returned]
       /\ succeeded' = IF r.error = NoError THEN succeeded \cup { <<doc, destination>> } ELSE succeeded
       /\ interrupted' = IF r.error.type = "OSError" /\ budget >= 1
                         THEN interrupted \cup { <<doc, destination>> }
                         ELSE interrupted
       /\ UNCHANGED <<gitignore, resolverVars, heapVars>>

Next ==
    \E doc \in EmitterDocs, destination \in Destinations, budget \in IoBudgets :
        GenerateFromConfig(doc, destination, budget)

Spec == Init /\ [][Next]_vars

(***************************************************************************)
(* The resolver and the renderer: one document through read_config,        *)
(* coerce_config, format_dependency_groups and build_pyproject.            *)
(***************************************************************************)
InitResolve ==
    /\ raw \in ResolverDocs
    /\ data = <<>>
    /\ resolved = <<>>
    /\ groups_block = <<>>
    /\ manifest = <<>>
    /\ scaffold = <<>>
    /\ fs = InitialFs
    /\ gitignore = GITIGNORE_DEFAULT
    /\ last = NoCall
    /\ succeeded = {}
    /\ interrupted = {}
    /\ heap = InitialHeap
    /\ held = NoHeld

ReadConfig ==
    /\ data = <<>>
    /\ data' = <<read_config(raw)>>
    /\ UNCHANGED <<emitterVars, heapVars, raw, resolved, groups_block, manifest, scaffold>>

CoerceConfig ==
    /\ data # <<>>
    /\ data[1].error = ""
    /\ resolved = <<>>
    /\ resolved' = <<coerce_config(data[1].value[1])>>
    /\ UNCHANGED <<emitterVars, heapVars, raw, data, groups_block, manifest, scaffold>>

FormatDependencyGroups ==
    /\ resolved # <<>>
    /\ resolved[1].error = ""
    /\ groups_block = <<>>
    /\ groups_block' = <<format_dependency_groups(resolved[1].value[1].dependency_groups,
                                                  resolved[1].value[1].dev_extras)>>
    /\ UNCHANGED <<emitterVars, heapVars, raw, data, resolved, manifest, scaffold>>

BuildPyproject ==
    /\ resolved # <<>>
    /\ resolved[1].error = ""
    /\ manifest = <<>>
    /\ manifest' = <<build_pyproject(resolved[1].value[1])>>
    /\ UNCHANGED <<emitterVars, heapVars, raw, data, resolved, groups_block, scaffold>>

\* the contents generate_from_config renders for its write_file calls
RenderScaffold ==
    /\ resolved # <<>>
    /\ resolved[1].error = ""
    /\ scaffold = <<>>
    /\ scaffold' = <<Files(resolved[1].value[1], <<>>, gitignore)>>
    /\ UNCHANGED <<emitterVars, heapVars, raw, data, resolved, groups_block, manifest>>

NextResolve ==
    ReadConfig \/ CoerceConfig \/ FormatDependencyGroups \/ BuildPyproject \/ RenderScaffold

SpecResolve == InitResolve /\ [][NextResolve]_vars

(***************************************************************************)
(* coerce_config in memory: calls of coerce_config, and a caller that      *)
(* appends to the group lists of the config the last call returned.        *)
(***************************************************************************)
InitDefaults ==
    /\ heap = InitialHeap
    /\ held = NoHeld
    /\ fs = InitialFs
    /\ gitignore = GITIGNORE_DEFAULT
    /\ last = NoCall
    /\ succeeded = {}
    /\ interrupted = {}
    /\ raw = Null
    /\ data = <<>>
    /\ resolved = <<>>
    /\ groups_block = <<>>
    /\ manifest = <<>>
    /\ scaffold = <<>>

\* config = coerce_config(r); on an exception the caller keeps the config it had
CoerceConfigCall(r) ==
    \E out \in { coerce_config_on_heap(heap, r) } :
        \E kept \in { Collect(out.heap, IF out.error = "" THEN out.ref ELSE held.ref) } :
            /\ heap' = kept.heap
            /\ held' = [op |-> "coerce_config", raw |-> r, error |-> out.error, ref |-> kept.ref]
            /\ UNCHANGED <<emitterVars, resolverVars>>

\* config.dependency_groups[group_name].append(Marker)
AppendToGroup(group_name) ==
    /\ held.ref # <<>>
    /\ group_name \in Range(heap[held.ref[1]].keys)
    /\ LET list == heap[held.ref[1]].refs[IndexOf(heap[held.ref[1]].keys, group_name)]
       IN /\ Appended(heap[list].entries) < MaxAppends
          /\ heap' = [heap EXCEPT ![list].entries = Append(@, Marker)]
    /\ held' = [held EXCEPT !.op = "append"]
    /\ UNCHANGED <<emitterVars, resolverVars>>

NextDefaults ==
    \/ \E r \in HeapDocs : CoerceConfigCall(r)
    \/ \E group_name \in {"test", "docs", "lint", "dev"} : AppendToGroup(group_name)

SpecDefaults == InitDefaults /\ [][NextDefaults]_vars

(***************************************************************************)
(* Properties of the emitter, checked under Spec.                          *)
(***************************************************************************)
Called == last.op = "generate_from_config"

\* the files of the layout, relative to the project root
Layout(package_identifier) ==
    { <<"pyproject.toml">>, <<".pre-commit-config.yaml">>, <<".readthedocs.yaml">>, <<"LICENSE">>,
      <<"README.md">>, <<".gitignore">>, <<".github", "workflows", "ci.yml">>,
      <<"docs", "index.md">>, <<"docs", "conf.py">>, <<"docs", "introduction.md">>,
      <<"docs", "quickstart.md">>, <<"docs", "concepts.md">>, <<"docs", "tutorials.md">>,
      <<"docs", "architecture.md">>, <<"docs", "contributing.md">>, <<"docs", "api", "index.md">>,
      <<"docs", "api", "inference.md">>, <<"docs", "api", "parameters.md">>,
      <<"docs", "api", "statelib.md">>, <<"docs", "_static", "custom.css">>,
      <<"docs", "_templates", ".gitkeep">>, <<"docs", "Makefile">>,
      <<"src", package_identifier, "__init__.py">>, <<"tests", "test_placeholder.py">>,
      <<"examples", ".gitkeep">> }

\* project_name with every hyphen and every space replaced by an underscore
PackageIdentifier(project_name) ==
    AsString([i \in 1..Len(project_name) |->
                 IF project_name[i] \in {"-", " "} THEN "_" ELSE project_name[i]])

\* C1: a call of generate_from_config that fails with a configuration error or a
\* filesystem precondition error (destination missing, project directory present)
\* leaves the filesystem exactly as it was: no directory created, no file written.
C1_FailedCallLeavesFilesystem ==
    [][ (last'.op = "generate_from_config"
         /\ last'.error.type \in {"ConfigError", "FileNotFoundError", "FileExistsError"})
        => fs' = fs ]_vars

\* a configuration error raised on a filesystem that already holds a scaffold
C1_Witness ==
    /\ Called
    /\ last.error.type = "ConfigError"
    /\ fs # InitialFs

\* C3: a successful call creates under <destination>/<project_name> exactly the files
\* of the layout and no other file, the package identifier being project_name with
\* hyphens and spaces replaced by underscores, and returns <destination>/<project_name>.
C3_SuccessCreatesExactlyLayout ==
    [][ (last'.op = "generate_from_config" /\ last'.error = NoError)
        => LET name == last'.config.items[IndexOf(last'.config.keys, "project_name")].s
               root == Append(last'.destination, AsString(name))
           IN /\ last'.returned = <<root>>
              /\ (DOMAIN fs'.files) \ (DOMAIN fs.files)
                    = { root \o rel : rel \in Layout(PackageIdentifier(name)) }
              /\ \A p \in DOMAIN fs.files : fs'.files[p] = fs.files[p] ]_vars

\* a call that returned for a project name holding a space
C3_Witness ==
    /\ Called
    /\ last.error = NoError
    /\ last.config = MyProject
    /\ last.returned = << last.destination \o <<"a b">> >>

\* C4: once a call has returned, every later call with the same configuration and
\* destination fails with FileExistsError and leaves files and contents unchanged.
C4_SecondRunFailsAlreadyExists ==
    [][ (last'.op = "generate_from_config" /\ <<last'.config, last'.destination>> \in succeeded)
        => (last'.error.type = "FileExistsError" /\ fs' = fs) ]_vars

\* a repeated call that failed after the same call had returned
C4_Witness ==
    /\ Called
    /\ <<last.config, last.destination>> \in succeeded
    /\ last.error.type = "FileExistsError"

\* C11: every file generate_from_config has written, whatever the template and the
\* substituted values and including the empty .gitkeep files, has a content that ends with
\* exactly one newline and has no other whitespace before that newline.
C11_WrittenFilesEndWithOneNewline ==
    \A p \in (DOMAIN fs.files) \ (DOMAIN InitialFs.files) :
        LET content == fs.files[p]
        IN /\ content # <<>>
           /\ content[Len(content)] = NL
           /\ Len(content) >= 2 => content[Len(content) - 1] \notin {" ", "\t", NL, INDENT}

\* a scaffold whose .gitkeep files hold one newline, whose .gitignore was given with
\* trailing spaces and newlines, and whose docs/conf.py template ends with an indented line
C11_Witness ==
    /\ Called
    /\ last.error = NoError
    /\ \E p \in DOMAIN fs.files : p[Len(p)] = ".gitkeep" /\ fs.files[p] = <<NL>>
    /\ \E p \in DOMAIN fs.files : p[Len(p)] = ".gitignore" /\ fs.files[p] = <<".venv/", NL>>
    /\ \E p \in DOMAIN fs.files :
          /\ p[Len(p)] = "conf.py"
          /\ SubSeq(fs.files[p], Len(fs.files[p]) - 2, Len(fs.files[p])) = <<".readthedocs.io/", QUOTE, NL>>

\* C15: there is no rollback.  When an I/O error ends a call after the project root has been
\* created, what the call and the calls before it created remains; every later call with
\* the same configuration and destination fails with FileExistsError and writes nothing,
\* so re-running never completes the scaffold.
C15_NoRollbackNoResume ==
    [][ last'.op = "generate_from_config" =>
          LET call == <<last'.config, last'.destination>>
          IN /\ call \in interrupted' \ interrupted =>
                   LET name == last'.config.items[IndexOf(last'.config.keys, "project_name")].s
                       root == Append(last'.destination, AsString(name))
                   IN /\ root \in fs'.dirs \ fs.dirs
                      /\ fs.dirs \subseteq fs'.dirs
                      /\ \A p \in DOMAIN fs.files : p \in DOMAIN fs'.files /\ fs'.files[p] = fs.files[p]
             /\ call \in interrupted =>
                   /\ last'.error.type = "FileExistsError"
                   /\ fs' = fs
                   /\ call \notin succeeded' ]_vars

\* a call repeated after an I/O error ended it at its second file: the manifest is there,
\* the file after it is not, and the call fails with FileExistsError
C15_Witness ==
    /\ Called
    /\ <<last.config, last.destination>> \in interrupted
    /\ last.config = SampleProject
    /\ last.error.type = "FileExistsError"
    /\ (last.destination \o <<"a-b", "pyproject.toml">>) \in DOMAIN fs.files
    /\ (last.destination \o <<"a-b", ".pre-commit-config.yaml">>) \notin DOMAIN fs.files

(***************************************************************************)
(* Properties of the resolver and the renderer, checked under SpecResolve. *)
(***************************************************************************)
Resolved == resolved # <<>>
Accepted == resolved # <<>> /\ resolved[1].error = ""
Config == resolved[1].value[1]

AuthorEntryOk(entry) == IsDict(entry) /\ Has(entry, "name") /\ Has(entry, "email")

AuthorsOk(r) ==
    /\ Has(r, "authors")
    /\ IsList(Get(r, "authors"))
    /\ Get(r, "authors").items # <<>>
    /\ \A i \in 1..Len(Get(r, "authors").items) : AuthorEntryOk(Get(r, "authors").items[i])

\* field is missing from r, or its value has the wrong shape
FieldBad(r, field) ==
    CASE field \in {"project_name", "description", "project_url"} -> ~Has(r, field)
      [] field = "authors" -> ~AuthorsOk(r)
      [] field \in {"dependencies", "dev_extras"} -> ~Has(r, field) \/ ~IsList(Get(r, field))
      [] field = "dependency_groups" ->
            \/ ~Has(r, field)
            \/ ~IsDict(Get(r, field))
            \/ \E i \in 1..Len(Get(r, field).items) : ~IsList(Get(r, field).items[i])

BadFields(r) == { i \in 1..Len(FieldOrder) : FieldBad(r, FieldOrder[i]) }

FirstBadField(r) == FieldOrder[CHOOSE i \in BadFields(r) : \A j \in BadFields(r) : i <= j]

\* the field a ConfigError message of coerce_config identifies
ErrorField(msg) ==
    CASE msg \in { "Missing '" \o f \o "' in configuration" : f \in Range(FieldOrder) } ->
            CHOOSE f \in Range(FieldOrder) : msg = "Missing '" \o f \o "' in configuration"
      [] msg \in { "'authors' must be a list", "'authors' must contain at least one entry",
                   "Each author entry must be a mapping with name/email",
                   "Author entries require 'name' and 'email'" } -> "authors"
      [] msg = "'dependencies' must be a list" -> "dependencies"
      [] msg = "'dependency_groups' must be a mapping" -> "dependency_groups"
      [] msg \in { "Dependency group '" \o g \o "' must be a list" : g \in {"test", "docs", "examples", "lint", "dev"} } ->
            "dependency_groups"
      [] msg = "'dev_extras' must be a list" -> "dev_extras"
      [] OTHER -> "?"

\* C2: when one or more fields of the raw mapping are missing or malformed, coerce_config
\* raises a ConfigError that identifies the first such field in the order project_name,
\* description, project_url, authors, dependencies, dependency_groups, dev_extras, and
\* returns no ProjectConfig.
C2_FirstBadFieldReported ==
    (Resolved /\ BadFields(raw) # {})
        => /\ resolved[1].error # ""
           /\ resolved[1].value = <<>>
           /\ ErrorField(resolved[1].error) = FirstBadField(raw)

\* three fields are bad, a later one missing and an earlier one malformed; authors is first
C2_Witness ==
    /\ Resolved
    /\ Cardinality(BadFields(raw)) >= 3
    /\ ~Has(raw, "dependencies")
    /\ Has(raw, "authors")
    /\ FirstBadField(raw) = "authors"
    /\ ErrorField(resolved[1].error) = "authors"

\* C5: the resolved dependency_groups is the built-in defaults overlaid key by key with the
\* groups of the caller: a group the caller names maps to exactly the list of the caller,
\* a default group the caller does not name keeps its default list, and test, docs and
\* examples are always keys of the result.
C5_GroupsOverlayDefaults ==
    Accepted =>
        LET caller == Get(raw, "dependency_groups")
            groups == Config.dependency_groups
        IN /\ Len(groups.keys) = Len(groups.vals)
           /\ Cardinality(Range(groups.keys)) = Len(groups.keys)
           /\ Range(groups.keys) = Range(DEFAULT_DEPENDENCY_GROUPS.keys) \cup Range(caller.keys)
           /\ {"test", "docs", "examples"} \subseteq Range(groups.keys)
           /\ \A i \in 1..Len(caller.keys) :
                 GroupOf(groups, caller.keys[i]) = StrAll(caller.items[i].items)
           /\ \A name \in Range(DEFAULT_DEPENDENCY_GROUPS.keys) \ Range(caller.keys) :
                 GroupOf(groups, name) = GroupOf(DEFAULT_DEPENDENCY_GROUPS, name)

\* the caller replaces the default test list by a shorter one and leaves docs alone
C5_Witness ==
    /\ Accepted
    /\ Get(raw, "dependency_groups").keys = <<"test">>
    /\ GroupOf(Config.dependency_groups, "test") = << <<"p", "y">> >>
    /\ Len(GroupOf(Config.dependency_groups, "docs")) = 9

StringEntryLine(dep) == <<INDENT, QUOTE>> \o dep \o <<QUOTE, ",">>

IncludeGroupLine(name) == <<INDENT, "{ include-group = ", QUOTE, name, QUOTE, " },">>

\* the lines of the block of one group: header, entries (or the placeholder), closing
\* bracket and the empty line after it
GroupBlockLines(name, deps) ==
    << <<name, " = [">> >>
    \o (IF deps = <<>> THEN << <<INDENT, "# Add entries here">> >>
        ELSE [i \in 1..Len(deps) |-> StringEntryLine(deps[i])])
    \o << <<"]">>, <<>> >>

\* the names of the groups other than dev in encounter order: the default names first,
\* then the names the caller introduced, in the order of the caller
EncounterOrder(caller_names) ==
    <<"test", "docs", "examples">>
    \o SelectSeq(caller_names, LAMBDA name : name \notin {"test", "docs", "examples", "dev"})

\* C6: format_dependency_groups renders each group other than dev as its own block in
\* encounter order and then, as the last block, a dev group whose entries are an
\* include-group reference per other group in encounter order, then the entries of
\* DEV_BASELINE (ipython, ruff, pre_commit, mypy), then the entries of dev_extras.
C6_DevGroupSynthesizedLast ==
    groups_block # <<>> =>
        LET names == EncounterOrder(Get(raw, "dependency_groups").keys)
            groups == Config.dependency_groups
            extras == Config.dev_extras
            baseline == << <<"ipython">>, <<"ruff">>, <<"pre_commit">>, <<"mypy">> >>
        IN Lines(groups_block[1]) =
              Flatten([i \in 1..Len(names) |-> GroupBlockLines(names[i], GroupOf(groups, names[i]))])
              \o << <<"dev = [">> >>
              \o [i \in 1..Len(names) |-> IncludeGroupLine(names[i])]
              \o [i \in 1..Len(baseline) |-> StringEntryLine(baseline[i])]
              \o [i \in 1..Len(extras) |-> StringEntryLine(extras[i])]
              \o << <<"]">> >>

\* the caller introduces a group, supplies a dev group of its own and gives dev_extras
C6_Witness ==
    /\ groups_block # <<>>
    /\ Get(raw, "dependency_groups").keys = <<"dev", "lint", "docs">>
    /\ Config.dev_extras # <<>>
    /\ IncludeGroupLine("lint") \in Range(Lines(groups_block[1]))

\* C7 (as claimed): coerce_config returns a ProjectConfig only when the raw configuration
\* has a project_name whose value is not empty.
C7_ProjectNameNonEmpty ==
    Accepted => (Has(raw, "project_name") /\ Str(Get(raw, "project_name")) # <<>>)

\* C8: coerce_config accepts authors only when it is a non-empty list in which every entry
\* is a mapping holding name and email; otherwise it raises a ConfigError and returns no
\* ProjectConfig.
C8_AuthorsAllOrNothing ==
    Resolved =>
        /\ resolved[1].error = "" =>
              /\ AuthorsOk(raw)
              /\ Len(Config.authors) = Len(Get(raw, "authors").items)
        /\ ~AuthorsOk(raw) => (resolved[1].error # "" /\ resolved[1].value = <<>>)

\* the first entry is well formed, the second is not, and the error is about an author entry
C8_Witness ==
    /\ Resolved
    /\ Has(raw, "authors")
    /\ IsList(Get(raw, "authors"))
    /\ Len(Get(raw, "authors").items) = 2
    /\ AuthorEntryOk(Get(raw, "authors").items[1])
    /\ ~AuthorEntryOk(Get(raw, "authors").items[2])
    /\ resolved[1].error \in { "Each author entry must be a mapping with name/email",
                               "Author entries require 'name' and 'email'" }

\* C9: read_config raises the empty error for a document that parses to null, the
\* must-define-a-mapping error for any other root that is not a mapping, and returns only a
\* mapping root.
C9_EmptyAndNonMappingDistinct ==
    data # <<>> =>
        /\ raw.kind = "null" =>
              (data[1].error = "Configuration file is empty." /\ data[1].value = <<>>)
        /\ raw.kind \notin {"null", "dict"} =>
              /\ data[1].error = "Configuration must define a mapping at the top level."
              /\ data[1].value = <<>>
        /\ raw.kind = "dict" => (data[1].error = "" /\ data[1].value = <<raw>>)

\* an empty sequence at the root is reported as not a mapping, not as empty
C9_Witness ==
    /\ data # <<>>
    /\ raw = L(<<>>)
    /\ data[1].error = "Configuration must define a mapping at the top level."

(***************************************************************************)
(* Reading a rendered line back: the basic strings a TOML parser finds in  *)
(* it, unescaped.                                                          *)
(***************************************************************************)
RECURSIVE Scan(_, _, _, _)
Scan(rest, inString, current, found) ==
    IF rest = <<>> THEN [ok |-> ~inString, strings |-> found]
    ELSE IF ~inString
         THEN Scan(Tail(rest), Head(rest) = QUOTE, <<>>, found)
    ELSE IF Head(rest) = QUOTE
         THEN Scan(Tail(rest), FALSE, <<>>, Append(found, current))
    ELSE IF Head(rest) = BACKSLASH
         THEN IF Len(rest) >= 2 /\ rest[2] \in {QUOTE, BACKSLASH}
              THEN Scan(SubSeq(rest, 3, Len(rest)), TRUE, Append(current, rest[2]), found)
              ELSE [ok |-> FALSE, strings |-> found]
    ELSE Scan(Tail(rest), TRUE, Append(current, Head(rest)), found)

ParseStrings(line) == Scan(line, FALSE, <<>>, <<>>)

Reads(line, strings) == ParseStrings(line) = [ok |-> TRUE, strings |-> strings]

\* the line of the manifest whose first token after the indentation is key
FieldLine(text, key) ==
    LET bodies == { SubSeq(l, Indentation(l) + 1, Len(l)) : l \in Range(Lines(text)) }
    IN CHOOSE b \in bodies : b # <<>> /\ b[1] = key

\* C10 (as claimed): no quoted field of the manifest holds an unescaped backslash or
\* double quote coming from the configuration: every quoted field reads back as the
\* configuration value it was rendered from.
C10_QuotedFieldsEscaped ==
    (Accepted /\ manifest # <<>>) =>
        /\ Reads(FieldLine(manifest[1], "name = "), <<Config.project_name>>)
        /\ Reads(FieldLine(manifest[1], "description = "), <<Config.description>>)
        /\ Reads(FieldLine(manifest[1], "Homepage = "), <<Config.project_url>>)
        /\ Reads(FieldLine(manifest[1], "Discussions = "), <<Config.project_url \o <<"/discussions">> >>)
        /\ Reads(FieldLine(manifest[1], "Changelog = "), <<Config.project_url \o <<"/releases">> >>)

\* what the code does guarantee: description and the URLs read back as configured
C10_DescriptionAndUrlsEscaped ==
    (Accepted /\ manifest # <<>>) =>
        /\ Reads(FieldLine(manifest[1], "description = "), <<Config.description>>)
        /\ Reads(FieldLine(manifest[1], "Homepage = "), <<Config.project_url>>)
        /\ Reads(FieldLine(manifest[1], "Discussions = "), <<Config.project_url \o <<"/discussions">> >>)
        /\ Reads(FieldLine(manifest[1], "Changelog = "), <<Config.project_url \o <<"/releases">> >>)

\* the line of a text whose tokens after the indentation start with prefix
LineStarting(text, prefix) ==
    LET bodies == { SubSeq(l, Indentation(l) + 1, Len(l)) : l \in Range(Lines(text)) }
    IN CHOOSE b \in bodies : Len(b) >= Len(prefix) /\ SubSeq(b, 1, Len(prefix)) = prefix

\* the content rendered for the file at path, relative to the project root
Rendered(path) == (CHOOSE w \in Range(scaffold[1]) : w.path = path).content

RECURSIVE TrimSlashes(_)
\* t without the slashes that end it
TrimSlashes(t) ==
    IF t # <<>> /\ t[Len(t)] = "/" THEN TrimSlashes(SubSeq(t, 1, Len(t) - 1)) ELSE t

\* C12: for every accepted configuration the resolved project_url is the raw project_url
\* with all its trailing slashes removed, so it never ends with a slash; the Homepage of
\* the manifest is that value, the issues, discussions and releases URLs are that value
\* followed by /issues, /discussions and /releases, and the repository URL of docs/conf.py
\* is that value too.
C12_UrlsDerivedFromTrimmedUrl ==
    Accepted =>
        LET url == TrimSlashes(Str(Get(raw, "project_url")))
        IN /\ Config.project_url = url
           /\ url = <<>> \/ url[Len(url)] # "/"
           /\ manifest # <<>> =>
                 /\ Reads(LineStarting(manifest[1], <<"Homepage = ">>), <<url>>)
                 /\ Reads(LineStarting(manifest[1], <<QUOTE, "Bug Tracker", QUOTE>>),
                          << <<"Bug Tracker">>, url \o <<"/issues">> >>)
                 /\ Reads(LineStarting(manifest[1], <<"Discussions = ">>), <<url \o <<"/discussions">> >>)
                 /\ Reads(LineStarting(manifest[1], <<"Changelog = ">>), <<url \o <<"/releases">> >>)
           /\ scaffold # <<>> =>
                 /\ LineStarting(Rendered(<<"docs", "conf.py">>), <<"url: ">>)
                       = <<"url: ", QUOTE>> \o url \o <<QUOTE>>
                 /\ LineStarting(Rendered(<<"docs", "conf.py">>), <<"source_repository: ">>)
                       = <<"source_repository: ", QUOTE>> \o url \o <<QUOTE>>

\* a project_url given with a trailing slash, rendered into the manifest and docs/conf.py
C12_Witness ==
    /\ Accepted
    /\ Str(Get(raw, "project_url")) = <<"u", "/">>
    /\ Config.project_url = <<"u">>
    /\ manifest # <<>>
    /\ scaffold # <<>>

RECURSIVE CommaJoined(_)
\* the texts of a non-empty list joined by a comma and a space
CommaJoined(names) ==
    IF Len(names) = 1 THEN names[1] ELSE names[1] \o <<", ">> \o CommaJoined(Tail(names))

\* the lines of a text that are an author record of the manifest
AuthorRecords(text) ==
    SelectSeq(Lines(text), LAMBDA l : Indentation(l) < Len(l) /\ l[Indentation(l) + 1] = "{ name = ")

\* C13: every ProjectConfig coerce_config returns has a non-empty authors list, so the
\* fallbacks for empty authors are never used (the developers label of build_author_label,
\* the placeholder record of format_authors), and the author label in LICENSE, docs/conf.py
\* and __init__.py is the names of the authors joined by a comma and a space, in
\* configuration order.
C13_AuthorLabelNeverFallsBack ==
    Accepted =>
        LET entries == Get(raw, "authors").items
            names == [i \in 1..Len(entries) |-> Str(Get(entries[i], "name"))]
            emails == [i \in 1..Len(entries) |-> Str(Get(entries[i], "email"))]
            label == CommaJoined(names)
        IN /\ Config.authors # <<>>
           /\ Len(Config.authors) = Len(entries)
           /\ manifest # <<>> =>
                 /\ "todo@example.com" \notin Range(manifest[1])
                 /\ Len(AuthorRecords(manifest[1])) = Len(entries)
                 /\ \A i \in 1..Len(entries) :
                       Reads(AuthorRecords(manifest[1])[i], <<names[i], emails[i]>>)
           /\ scaffold # <<>> =>
                 /\ \A w \in Range(scaffold[1]) : " developers" \notin Range(w.content)
                 /\ LineStarting(Rendered(<<"LICENSE">>), <<"Copyright (c) 2024 ">>)
                       = <<"Copyright (c) 2024 ">> \o label
                 /\ LineStarting(Rendered(<<"docs", "conf.py">>), <<"author = ">>)
                       = <<"author = ", QUOTE>> \o label \o <<QUOTE>>
                 /\ LineStarting(Rendered(<<"src", AsString(normalize_package_name(Config.project_name)),
                                            "__init__.py">>), <<"__author__ = ">>)
                       = <<"__author__ = ", QUOTE>> \o label \o <<QUOTE>>

\* two authors with different names, rendered: the label is Al, Mo in that order
C13_Witness ==
    /\ Accepted
    /\ Get(raw, "authors").items = <<AuthorAl, AuthorMo>>
    /\ manifest # <<>>
    /\ scaffold # <<>>
    /\ LineStarting(Rendered(<<"LICENSE">>), <<"Copyright (c) 2024 ">>)
          = <<"Copyright (c) 2024 ", "A", "l", ", ", "M", "o">>

\* the lines between the line dependencies = [ of the manifest and the bracket that closes
\* it, without their indentation
DependenciesBlock(text) ==
    LET ls == Lines(text)
        Body(l) == SubSeq(l, Indentation(l) + 1, Len(l))
        start == CHOOSE i \in 1..Len(ls) : Body(ls[i]) = <<"dependencies = [">>
        closing == { j \in (start + 1)..Len(ls) : Body(ls[j]) = <<"]">> }
        end == CHOOSE j \in closing : \A k \in closing : j <= k
    IN [k \in 1..(end - start - 1) |-> Body(ls[start + k])]

\* the block holds the entries of deps, each double-quoted on its own line, in order, and
\* nothing else; for no entries it holds only the comment placeholder
ExactlyTheEntries(block, deps) ==
    IF deps = <<>> THEN block = << <<"# Add entries here">> >>
    ELSE block = [i \in 1..Len(deps) |-> <<QUOTE>> \o deps[i] \o <<QUOTE, ",">>]

\* C14 (as claimed): for every dependencies list, the dependencies block of the manifest
\* holds exactly the configured entries, each double-quoted on its own line, in
\* configuration order, and no other entry; for an empty list only the comment placeholder.
C14_DependenciesRenderedExactly ==
    manifest # <<>> =>
        ExactlyTheEntries(DependenciesBlock(manifest[1]), StrAll(Get(raw, "dependencies").items))

\* C14, what the code does guarantee: the same, for entries that hold no newline
C14_SingleLineEntriesRenderedExactly ==
    (manifest # <<>> /\ \A i \in 1..Len(Config.dependencies) : NL \notin Range(Config.dependencies[i]))
        => ExactlyTheEntries(DependenciesBlock(manifest[1]), StrAll(Get(raw, "dependencies").items))

\* documents that differ from r at most in the group dev of dependency_groups: without it,
\* with an empty one given first, with one of two entries given last
DevVariants(r) ==
    LET at == IndexOf(r.keys, "dependency_groups")
        others == Without(r.items[at], "dev")
        groups == { others,
                    M(<<"dev">> \o others.keys, <<L(<<>>)>> \o others.items),
                    M(Append(others.keys, "dev"), Append(others.items, L(<<S(<<"r">>), I(1)>>))) }
    IN { [r EXCEPT !.items[at] = g] : g \in groups }

\* the lines of a text without their indentation
Bodies(text) ==
    LET ls == Lines(text) IN [i \in 1..Len(ls) |-> SubSeq(ls[i], Indentation(ls[i]) + 1, Len(ls[i]))]

\* C17: a group named dev given by the caller is accepted and has no effect on the output:
\* two configurations that differ only in the presence or the contents of
\* dependency_groups.dev get the same manifest, which holds one dev block, the synthesized
\* one, with no include-group reference to dev.
C17_CallerDevGroupIgnored ==
    (Accepted /\ manifest # <<>>) =>
        /\ \A other \in DevVariants(raw) :
              /\ coerce_config(other).error = ""
              /\ build_pyproject(coerce_config(other).value[1]) = manifest[1]
        /\ Len(SelectSeq(Bodies(manifest[1]), LAMBDA b : b = <<"dev = [">>)) = 1
        /\ <<"{ include-group = ", QUOTE, "dev", QUOTE, " },">> \notin Range(Bodies(manifest[1]))

\* the caller gives a dev group holding v: the manifest has the reference to lint, and
\* neither the entry v nor a reference to dev
C17_Witness ==
    /\ Accepted
    /\ manifest # <<>>
    /\ Has(Get(raw, "dependency_groups"), "dev")
    /\ Get(Get(raw, "dependency_groups"), "dev") = L(<<S(<<"v">>)>>)
    /\ <<"{ include-group = ", QUOTE, "lint", QUOTE, " },">> \in Range(Bodies(manifest[1]))
    /\ <<QUOTE, "v", QUOTE, ",">> \notin Range(Bodies(manifest[1]))

(***************************************************************************)
(* Properties of coerce_config in memory, checked under SpecDefaults.      *)
(***************************************************************************)
\* C16: coerce_config never modifies DEFAULT_DEPENDENCY_GROUPS.  After any sequence of
\* calls, returning or raising, with any overrides, and with appends to the group lists of
\* a returned config in between, the defaults are what they were, and the outcome of a
\* call is the one its raw input alone determines.
C16_DefaultsNeverModified ==
    /\ Deref(heap, DefaultsAddr) = DEFAULT_DEPENDENCY_GROUPS
    /\ held.op = "coerce_config" =>
          /\ held.error = coerce_config(held.raw).error
          /\ held.error = "" =>
                Deref(heap, held.ref[1]) = coerce_config(held.raw).value[1].dependency_groups

\* a call that raised in the loop over the groups, made while the caller holds a config
\* whose docs list, a default one, it has appended to
C16_Witness ==
    /\ held.op = "coerce_config"
    /\ held.raw = GroupsNotAllLists
    /\ held.error = "Dependency group 'lint' must be a list"
    /\ held.ref # <<>>
    /\ Marker \in Range(GroupOf(Deref(heap, held.ref[1]), "docs"))

====
